---- MODULE Spec2Model ----
(***************************************************************************)
(* Model of server/create.go: the model creation pipeline of the server.   *)
(* CreateHandler starts one producer goroutine per creation request; the   *)
(* goroutine resolves the source (an existing model or uploaded files),    *)
(* layers adapters, composes the overlays, writes the manifest, prunes the *)
(* superseded manifest and reports progress on an unbuffered channel.      *)
(*                                                                         *)
(* Byte contents are sequences of tokens; a digest is the content hash of  *)
(* the bytes (Digest).  The blob store, the manifest store, Layer.Remove,  *)
(* NewLayer, WriteManifest, parseFromModel and the two consumers live in   *)
(* files that are not part of src/; they are modelled from the design      *)
(* document and marked so in the model map.                                *)
(***************************************************************************)
EXTENDS Integers, Sequences, FiniteSets, TLC

VARIABLES
    blobs,        \* blob store: digest -> bytes (its DOMAIN is what is present)
    manifests,    \* manifest store: name -> [Config, Layers]
    noPrune,      \* envconfig.NoPrune()
    nreq,         \* number of creation requests started so far
    pc,           \* per goroutine: position in CreateHandler's producer
    req,          \* per goroutine: the api.CreateRequest it serves
    oldManifest,  \* per goroutine: <<>> or <<manifest>> read at line 66
    baseLayers,   \* per goroutine: []*layerGGML
    layers,       \* per goroutine: createModel's working []Layer
    config,       \* per goroutine: createModel's ConfigV2
    configLayer,  \* per goroutine: <<>> or <<the layer createConfigLayer returned>>
    conv,         \* per goroutine: state of the running convertModelFromFiles
    outq,         \* per goroutine: events it is blocked sending, in order
    recvd,        \* per goroutine: events the consumer has received, in order
    closed,       \* per goroutine: the channel was closed (deferred close(ch))
    cons,         \* per goroutine: consumer state, "recv" or "stopped"
    ops           \* per goroutine: store operations the request performed

vars == <<blobs, manifests, noPrune, nreq, pc, req, oldManifest, baseLayers,
          layers, config, configLayer, conv, outq, recvd, closed, cons, ops>>

(***************************************************************************)
(* Bounds of the model.                                                    *)
(***************************************************************************)
\* Creation requests started in one behaviour of Spec.
MaxRequests == 2
\* Creation requests started in one behaviour of ChainSpec (updates of one
\* model based on its previous version).
MaxChain == 3

Procs == {1, 2}

(***************************************************************************)
(* Media types (create.go lines 231, 353, 393, 412, 426, 439, 493, 517).   *)
(***************************************************************************)
MTModel == "application/vnd.ollama.image.model"
MTTemplate == "application/vnd.ollama.image.template"
MTSystem == "application/vnd.ollama.image.system"
MTLicense == "application/vnd.ollama.image.license"
MTParams == "application/vnd.ollama.image.params"
MTMessages == "application/vnd.ollama.image.messages"
MTConfig == "application/vnd.docker.container.image.v1+json"

(***************************************************************************)
(* Errors (create.go lines 29-35, 215, 238) and HTTP classifications.      *)
(***************************************************************************)
errNoFilesProvided == "no files provided to convert"
errOnlyOneAdapterSupported == "only one adapter is currently supported"
errOnlyGGUFSupported == "supplied file was not in GGUF format"
errUnknownType == "unknown type"
errNeitherFromOrFiles == "neither 'from' or 'files' was specified"
errQuantization == "quantization is only supported for F16 and F32 models"
errBadTemplate == "template error"
errInvalidModelName == "invalid model name"
errNotFound == "model not found"
errBlobNotExist == "open blob: no such file or directory"
errBadLicense == "json: cannot unmarshal into []string"
errRemoveBlob == "remove blob: permission denied"
errNoBaseModel == "no base model was found"

StatusBadRequest == 400
\* gin.H without a "status" entry
NoStatus == 0

(***************************************************************************)
(* Progress events: api.ProgressResponse{Status} and gin.H{"error", ...}.  *)
(***************************************************************************)
Progress(s) == [type |-> "progress", text |-> s, code |-> NoStatus]
ErrorEvent(msg, code) == [type |-> "error", text |-> msg, code |-> code]
SuccessEvent == Progress("success")
IsError(e) == e.type = "error"
IsSuccess(e) == e.type = "progress" /\ e.text = "success"
IsTerminal(e) == IsError(e) \/ IsSuccess(e)

(***************************************************************************)
(* Bytes and digests.  A digest is the hash of the bytes and of nothing    *)
(* else: equal content under two media types has one digest, one blob.     *)
(***************************************************************************)
Digest(bytes) == <<"sha256">> \o bytes

Text(s) == <<s>>

\* GGUF model files: magic, architecture, file type, parameter count label.
bF16 == <<"GGUF", "llama", "F16", "7B">>
bQ4 == <<"GGUF", "llama", "Q4_0", "7B">>
bF32 == <<"GGUF", "gemma", "F32", "2B">>
\* an uploaded file that is not GGUF
bJunk == <<"PK", "zip">>

\* llm.DetectGGMLType / detectContentType on the head of a blob
DetectContentType(bytes) ==
    IF Len(bytes) > 0 /\ bytes[1] = "GGUF" THEN "gguf" ELSE ""

NilGGML == [present |-> FALSE, Name |-> "", Arch |-> "", FileType |-> "", Params |-> ""]

\* llm.DecodeGGML on a whole blob
DecodeGGML(bytes) ==
    IF DetectContentType(bytes) = "gguf" /\ Len(bytes) >= 4
    THEN [present |-> TRUE, Name |-> "gguf", Arch |-> bytes[2],
          FileType |-> bytes[3], Params |-> bytes[4]]
    ELSE NilGGML

(***************************************************************************)
(* JSON encodings.  encoding/json writes a map with its keys sorted.       *)
(***************************************************************************)
ParamKeys == <<"a", "b">>

RECURSIVE EncodePairs(_, _)
EncodePairs(p, keys) ==
    IF keys = <<>> THEN <<>>
    ELSE (IF Head(keys) \in DOMAIN p THEN <<Head(keys), p[Head(keys)]>> ELSE <<>>)
         \o EncodePairs(p, Tail(keys))

EncodeParams(p) == <<"{">> \o EncodePairs(p, ParamKeys) \o <<"}">>

DecodeParams(bytes) ==
    LET n == (Len(bytes) - 2) \div 2
        idx == 1..n
    IN  [k \in {bytes[2 * i] : i \in idx} |->
            bytes[1 + 2 * (CHOOSE i \in idx : bytes[2 * i] = k)]]

RECURSIVE EncodeMessageList(_)
EncodeMessageList(m) ==
    IF m = <<>> THEN <<>>
    ELSE <<Head(m).role, Head(m).content>> \o EncodeMessageList(Tail(m))

EncodeMessages(m) == <<"[">> \o EncodeMessageList(m) \o <<"]">>

RECURSIVE JoinDigests(_)
JoinDigests(ds) ==
    IF ds = <<>> THEN <<>> ELSE Head(ds) \o JoinDigests(Tail(ds))

EncodeConfig(c) ==
    <<"config", "linux", "amd64", c.ModelFormat, c.ModelFamily, c.ModelType,
      c.FileType, "families">> \o c.ModelFamilies \o <<"rootfs", "layers">>
      \o JoinDigests(c.DiffIDs)

\* position of the "rootfs" token of an encoded config
RootfsAt(bytes) == CHOOSE i \in 1..Len(bytes) : bytes[i] = "rootfs"

RECURSIVE SplitDigests(_, _)
\* the digests of a token sequence in which every digest starts with "sha256"
SplitDigests(toks, acc) ==
    IF toks = <<>> THEN acc
    ELSE IF Head(toks) = "sha256"
         THEN SplitDigests(Tail(toks), Append(acc, <<"sha256">>))
         ELSE SplitDigests(Tail(toks),
                  [acc EXCEPT ![Len(acc)] = Append(acc[Len(acc)], Head(toks))])

\* RootFS.DiffIDs read back from a stored config document
DecodeDiffIDs(bytes) ==
    SplitDigests(SubSeq(bytes, RootfsAt(bytes) + 2, Len(bytes)), <<>>)

(***************************************************************************)
(* Layers and the stores.                                                  *)
(***************************************************************************)
Layer(bytes, mediatype, status) ==
    [Digest |-> Digest(bytes), MediaType |-> mediatype, Size |-> Len(bytes),
     status |-> status]

\* a layer as a manifest records it: the status field is not serialized
Stored(l) == [l EXCEPT !.status = ""]

Op(kind, arg) == [op |-> kind, arg |-> arg]

SeqToSet(s) == {s[i] : i \in 1..Len(s)}

Digests(ls) == [i \in 1..Len(ls) |-> ls[i].Digest]

\* the layers of a manifest, config included (append(m.Layers, m.Config))
ManifestLayers(m) == Append(m.Layers, m.Config)

\* some installed manifest lists digest d
Referenced(ms, d) ==
    \E n \in DOMAIN ms : d \in SeqToSet(Digests(ManifestLayers(ms[n])))

Without(bs, ds) == [d \in (DOMAIN bs) \ ds |-> bs[d]]

\* A step of composition threads a context: the blob store, the working layer
\* set, the log of store operations and the error returned ("" for nil).
Ctx(bs, ls, log) == [blobs |-> bs, layers |-> ls, ops |-> log, err |-> ""]

Failed(c, e) == [c EXCEPT !.layers = <<>>, !.err = e]

\* NewLayer: stream the bytes into the blob store (write-if-absent) and append
\* the resulting layer to the working set.
NewLayer(c, bytes, mediatype) ==
    LET d == Digest(bytes)
        present == d \in DOMAIN c.blobs
    IN  [c EXCEPT
            !.blobs = IF present THEN @ ELSE (d :> bytes) @@ @,
            !.layers = Append(@, Layer(bytes, mediatype,
                          IF present THEN "using existing layer"
                                     ELSE "creating new layer")),
            !.ops = Append(@, Op(IF present THEN "reuse" ELSE "write", d))]

\* NewLayerFromLayer: a layer for a blob that is already stored
NewLayerFromLayer(bs, d, mediatype) ==
    [Digest |-> d, MediaType |-> mediatype, Size |-> Len(bs[d]),
     status |-> "using existing layer"]

\* Layer.Remove on every layer of ls, in order: the blob is deleted unless an
\* installed manifest still lists its digest; a blob already gone is logged.
\* The log records the call ("remove") and the deletion it led to ("delete").
RECURSIVE RemoveAll(_, _, _)
RemoveAll(c, ms, ls) ==
    IF ls = <<>> THEN c
    ELSE LET d == Head(ls).Digest
             gone == ~Referenced(ms, d) /\ d \in DOMAIN c.blobs
         IN  RemoveAll([c EXCEPT !.blobs = IF gone THEN Without(@, {d}) ELSE @,
                                 !.ops = IF gone
                                         THEN @ \o <<Op("remove", d), Op("delete", d)>>
                                         ELSE Append(@, Op("remove", d))],
                       ms, Tail(ls))

\* the same with the reference check left out
RemoveAllUnchecked(c, ms, ls) ==
    [c EXCEPT !.blobs = Without(@, SeqToSet(Digests(ls))),
              !.ops = @ \o JoinDigests([i \in 1..Len(ls) |->
                          <<Op("remove", ls[i].Digest), Op("delete", ls[i].Digest)>>])]

removeLayer_Unchecked(c, ms, mediatype) ==
    LET hit(l) == l.MediaType = mediatype
        keep(l) == l.MediaType # mediatype
    IN  [RemoveAllUnchecked(c, ms, SelectSeq(c.layers, hit))
            EXCEPT !.layers = SelectSeq(c.layers, keep)]

\* removeLayer (slices.DeleteFunc): drop every layer of the media type from
\* the working set, calling Layer.Remove on each.
removeLayer(c, ms, mediatype) ==
    LET hit(l) == l.MediaType = mediatype
        keep(l) == l.MediaType # mediatype
    IN  [RemoveAll(c, ms, SelectSeq(c.layers, hit))
            EXCEPT !.layers = SelectSeq(c.layers, keep)]

\* template.Parse accepts the template
ValidTemplate(t) == t # "{{ bad"

\* setTemplate: the old template layer is removed before the new template is
\* parsed.
setTemplate(c, ms, t) ==
    LET c1 == removeLayer(c, ms, MTTemplate)
    IN  IF ~ValidTemplate(t) THEN Failed(c1, errBadTemplate)
        ELSE NewLayer(c1, Text(t), MTTemplate)

setSystem(c, ms, s) ==
    LET c1 == removeLayer(c, ms, MTSystem)
    IN  IF s # "" THEN NewLayer(c1, Text(s), MTSystem) ELSE c1

setLicense_Replace(c, ms, l) ==
    NewLayer(removeLayer(c, ms, MTLicense), Text(l), MTLicense)

\* setLicense appends and removes nothing
setLicense(c, ms, l) == NewLayer(c, Text(l), MTLicense)

RECURSIVE setLicenses(_, _, _)
\* createModel lines 279-284: one setLicense per string of the list
setLicenses(c, ms, ls) ==
    IF ls = <<>> THEN c ELSE setLicenses(setLicense(c, ms, Head(ls)), ms, Tail(ls))

\* the merge with the priority reversed: a stored value beats the request's
MergeInto_ExistingWins(p, existing) ==
    [k \in DOMAIN p \cup DOMAIN existing |->
        IF k \in DOMAIN existing THEN existing[k] ELSE p[k]]

\* p with every key of existing that p lacks (setParameters lines 459-464)
MergeInto(p, existing) ==
    [k \in DOMAIN p \cup DOMAIN existing |-> IF k \in DOMAIN p THEN p[k] ELSE existing[k]]

RECURSIVE mergeExisting(_, _, _)
\* setParameters lines 438-465: [p, err, read] after the loop over the layers
mergeExisting(p, ls, bs) ==
    IF ls = <<>> THEN [p |-> p, err |-> "", read |-> <<>>]
    ELSE IF Head(ls).MediaType # MTParams THEN mergeExisting(p, Tail(ls), bs)
    ELSE IF Head(ls).Digest \notin DOMAIN bs
         THEN [p |-> p, err |-> errBlobNotExist, read |-> <<>>]
    ELSE LET rest == mergeExisting(MergeInto(p, DecodeParams(bs[Head(ls).Digest])),
                                   Tail(ls), bs)
         IN  [rest EXCEPT !.read = <<Op("read", Head(ls).Digest)>> \o @]

setParameters(c, ms, p) ==
    LET m == mergeExisting(p, c.layers, c.blobs)
        c1 == [c EXCEPT !.ops = @ \o m.read]
    IN  IF m.err # "" THEN Failed(c1, m.err)
        ELSE IF DOMAIN m.p = {} THEN c1
        ELSE NewLayer(removeLayer(c1, ms, MTParams), EncodeParams(m.p), MTParams)

setMessages_ClearOnEmpty(c, ms, m) ==
    LET c1 == removeLayer(c, ms, MTMessages)
    IN  IF Len(m) = 0 THEN c1 ELSE NewLayer(c1, EncodeMessages(m), MTMessages)

\* setMessages: no messages supplied leaves the layer set as it is
setMessages(c, ms, m) ==
    IF Len(m) = 0 THEN c
    ELSE NewLayer(removeLayer(c, ms, MTMessages), EncodeMessages(m), MTMessages)

createConfigLayer_DropLast(c, cfg) ==
    LET ds == Digests(c.layers)
    IN  NewLayer(c, EncodeConfig([cfg EXCEPT !.DiffIDs =
                        IF Len(ds) > 1 THEN SubSeq(ds, 1, Len(ds) - 1) ELSE ds]),
                 MTConfig)

\* createConfigLayer: the config document, its diff-IDs the digests of the
\* working set, stored as a layer (returned as the last layer of the context)
createConfigLayer(c, cfg) ==
    NewLayer(c, EncodeConfig([cfg EXCEPT !.DiffIDs = Digests(c.layers)]), MTConfig)

Last(s) == s[Len(s)]
Front(s) == SubSeq(s, 1, Len(s) - 1)

(***************************************************************************)
(* createModel lines 219-248: the loop over the base layers.               *)
(***************************************************************************)
EmptyConfig ==
    [ModelFormat |-> "", ModelFamily |-> "", ModelFamilies |-> <<>>,
     ModelType |-> "", FileType |-> "", DiffIDs |-> <<>>]

\* cmp.Or of two strings
Or(a, b) == IF a # "" THEN a ELSE b

\* strings.ToUpper(cmp.Or(r.Quantize, r.Quantization))
ToUpper(q) == IF q = "q4_0" THEN "Q4_0" ELSE q
QuantType(r) == ToUpper(Or(r.Quantize, r.Quantization))

RECURSIVE baseLoop_NoGuard(_, _, _, _)
\* the loop without the file type check of lines 236-239
baseLoop_NoGuard(base, quantType, ls, cfg) ==
    IF base = <<>> THEN [layers |-> ls, config |-> cfg, err |-> ""]
    ELSE LET l == Head(base)
             g == l.GGML
         IN  baseLoop_NoGuard(Tail(base), quantType, Append(ls, l.Layer),
                IF g.present
                THEN [cfg EXCEPT
                        !.ModelFormat = Or(@, g.Name),
                        !.ModelFamily = Or(@, g.Arch),
                        !.ModelType = Or(@, g.Params),
                        !.FileType = Or(@, g.FileType),
                        !.ModelFamilies = Append(@, g.Arch)]
                ELSE cfg)

RECURSIVE baseLoop(_, _, _, _)
\* [layers, config, err] when the loop ends or returns its error
baseLoop(base, quantType, ls, cfg) ==
    IF base = <<>> THEN [layers |-> ls, config |-> cfg, err |-> ""]
    ELSE LET l == Head(base)
             g == l.GGML
         IN  IF g.present /\ quantType # "" /\ g.Name = "gguf"
                /\ l.Layer.MediaType = MTModel /\ g.FileType \notin {"F16", "F32"}
             THEN [layers |-> ls, config |-> cfg, err |-> errQuantization]
             ELSE baseLoop(Tail(base), quantType, Append(ls, l.Layer),
                    IF g.present
                    THEN [cfg EXCEPT
                            !.ModelFormat = Or(@, g.Name),
                            !.ModelFamily = Or(@, g.Arch),
                            !.ModelType = Or(@, g.Params),
                            !.FileType = Or(@, g.FileType),
                            !.ModelFamilies = Append(@, g.Arch)]
                    ELSE cfg)

\* kvFromLayers lines 209-216: the error it returns ("" for nil); createModel
\* does not call it
kvFromLayers(base) ==
    IF \E i \in 1..Len(base) : base[i].GGML.present THEN "" ELSE errNoBaseModel

(***************************************************************************)
(* parseFromModel: the layers of an installed manifest, the model layers   *)
(* with their decoded GGUF metadata.                                       *)
(***************************************************************************)
ValidName(n) == n \notin {"", "bad name!"}

RECURSIVE fromLayers(_, _)
fromLayers(ls, bs) ==
    IF ls = <<>> THEN [layers |-> <<>>, err |-> "", read |-> <<>>]
    ELSE LET l == Head(ls) IN
         IF l.Digest \notin DOMAIN bs
         THEN [layers |-> <<>>, err |-> errBlobNotExist, read |-> <<>>]
         ELSE LET rest == fromLayers(Tail(ls), bs)
                  this == [Layer |-> NewLayerFromLayer(bs, l.Digest, l.MediaType),
                           GGML |-> IF l.MediaType = MTModel
                                    THEN DecodeGGML(bs[l.Digest]) ELSE NilGGML]
                  read == IF l.MediaType = MTModel THEN <<Op("read", l.Digest)>> ELSE <<>>
              IN  IF rest.err # "" THEN rest
                  ELSE [layers |-> <<this>> \o rest.layers, err |-> "",
                        read |-> read \o rest.read]

parseFromModel(ms, bs, from) ==
    IF from \notin DOMAIN ms THEN [layers |-> <<>>, err |-> errNotFound, read |-> <<>>]
    ELSE fromLayers(ms[from].Layers, bs)

(***************************************************************************)
(* detectModelTypeFromFiles, visiting the map's entries in a given order.  *)
(***************************************************************************)
File(stem, ext) == [stem |-> stem, ext |-> ext]

RECURSIVE detectModelTypeFromFiles(_, _, _)
detectModelTypeFromFiles(files, order, bs) ==
    IF order = <<>> THEN ""
    ELSE LET fn == Head(order) IN
         IF fn.ext = ".safetensors" THEN "safetensors"
         ELSE IF fn.ext = ".gguf" THEN "gguf"
         ELSE IF files[fn] \notin DOMAIN bs THEN ""
         ELSE IF Len(bs[files[fn]]) = 0 THEN ""
         ELSE IF DetectContentType(bs[files[fn]]) = "gguf" THEN "gguf"
         ELSE detectModelTypeFromFiles(files, Tail(order), bs)

\* the orders in which a range over a map may visit the keys in S
Orders(S) ==
    {o \in [1..Cardinality(S) -> S] : \A i, j \in 1..Cardinality(S) : o[i] = o[j] => i = j}

(***************************************************************************)
(* Creation requests (api.CreateRequest).                                  *)
(***************************************************************************)
NilFiles == [nil |-> TRUE, m |-> <<>>]
FilesOf(m) == [nil |-> FALSE, m |-> m]

NoLicense == [kind |-> "nil", strs |-> <<>>]
LicenseString(l) == [kind |-> "string", strs |-> <<l>>]
LicenseList(ls) == [kind |-> "list", strs |-> ls]
\* a JSON value that is neither a string nor a list of strings
LicenseOther == [kind |-> "other", strs |-> <<>>]

NoParams == <<>>
Param(k, v) == (k :> v)

Message(role, content) == [role |-> role, content |-> content]
M1 == <<Message("user", "hi")>>
M2 == <<Message("user", "hi"), Message("assistant", "hello")>>

\* a request that names a target and nothing else
Blank(name) ==
    [Name |-> name, From |-> "", Files |-> NilFiles, Adapters |-> NilFiles,
     Template |-> "", System |-> "", License |-> NoLicense,
     Parameters |-> NoParams, Messages |-> <<>>, Quantize |-> "",
     Quantization |-> "", Stream |-> TRUE]

\* the overlays a request of the model supplies: none, or one of them
OneOverlay(r) ==
    {r}
    \cup {[r EXCEPT !.Template = t] : t \in {"t1", "{{ bad"}}
    \cup {[r EXCEPT !.System = x] : x \in {"s1", "s2"}}
    \cup {[r EXCEPT !.License = l] :
            l \in {LicenseString("l1"), LicenseString("l2"),
                   LicenseList(<<"l1", "l2">>), LicenseOther}}
    \cup {[r EXCEPT !.Parameters = q] :
            q \in {Param("a", "1"), Param("b", "2"), Param("a", "3")}}
    \cup {[r EXCEPT !.Messages = m] : m \in {M1, M2}}
    \cup {[r EXCEPT !.Quantize = "q4_0"]}

TargetNames == {"m1", "m2"}
SourceNames == {"base", "q4", "m1", "missing", "bad name!"}

\* uploaded files: name -> digest
FileMaps ==
    { <<>>,
      File("a", ".gguf") :> Digest(bF32),
      File("a", ".gguf") :> Digest(bJunk),
      File("a", ".gguf") :> Digest(<<"absent">>),
      File("blob", "") :> Digest(bF32),
      File("blob", "") :> Digest(bJunk),
      File("x", ".safetensors") :> Digest(bJunk),
      (File("a", ".gguf") :> Digest(bF32)) @@ (File("x", ".safetensors") :> Digest(bJunk)) }

AdapterMaps ==
    { File("lora", ".gguf") :> Digest(bF32),
      (File("lora", ".gguf") :> Digest(bF32)) @@ (File("lora2", ".gguf") :> Digest(bF16)) }

WithStream(R) == {[r EXCEPT !.Stream = s] : r \in R, s \in BOOLEAN}

FromRequests ==
    UNION {OneOverlay([Blank(n) EXCEPT !.From = f]) : n \in TargetNames, f \in SourceNames}

FileRequests == {[Blank("m1") EXCEPT !.Files = FilesOf(m)] : m \in FileMaps}

AdapterRequests ==
    {[Blank("m1") EXCEPT !.From = "base", !.Adapters = FilesOf(m)] : m \in AdapterMaps}

Requests ==
    WithStream(FromRequests \cup FileRequests \cup AdapterRequests \cup {Blank("m1")})

(***************************************************************************)
(* The state after construction: a store holding two pulled models and     *)
(* the uploaded files, and no request running.                             *)
(***************************************************************************)
\* createModel on base layers ls with no overlay, up to the config layer
Installed(bs, ls) ==
    LET base == [i \in 1..Len(ls) |->
                    [Layer |-> ls[i],
                     GGML |-> IF ls[i].MediaType = MTModel
                              THEN DecodeGGML(bs[ls[i].Digest]) ELSE NilGGML]]
        r == baseLoop(base, "", <<>>, EmptyConfig)
    IN  createConfigLayer(Ctx(bs, r.layers, <<>>), r.config)

InstalledManifest(bs, ls) ==
    [Config |-> Stored(Last(Installed(bs, ls).layers)),
     Layers |-> Front(Installed(bs, ls).layers)]

BlobsOf(S) == [d \in {Digest(b) : b \in S} |-> CHOOSE b \in S : Digest(b) = d]

UploadedBlobs == BlobsOf({bF16, bQ4, bF32, bJunk, Text("t0")})

BaseLayers == <<Layer(bF16, MTModel, "")>>
Q4Layers == <<Layer(Text("t0"), MTTemplate, ""), Layer(bQ4, MTModel, "")>>

InitManifests ==
    ("base" :> InstalledManifest(UploadedBlobs, BaseLayers))
    @@ ("q4" :> InstalledManifest(UploadedBlobs, Q4Layers))

InitBlobs == Installed(Installed(UploadedBlobs, BaseLayers).blobs, Q4Layers).blobs

\* detected: the result of detectModelTypeFromFiles, "none" before it has run
NoConv == [phase |-> "", todo |-> <<>>, acc |-> <<>>, offset |-> 0, detected |-> "none"]

Init ==
    /\ blobs = InitBlobs
    /\ manifests = InitManifests
    /\ noPrune \in BOOLEAN
    /\ nreq = 0
    /\ pc = [p \in Procs |-> "idle"]
    /\ req = [p \in Procs |-> Blank("")]
    /\ oldManifest = [p \in Procs |-> <<>>]
    /\ baseLayers = [p \in Procs |-> <<>>]
    /\ layers = [p \in Procs |-> <<>>]
    /\ config = [p \in Procs |-> EmptyConfig]
    /\ configLayer = [p \in Procs |-> <<>>]
    /\ conv = [p \in Procs |-> NoConv]
    /\ outq = [p \in Procs |-> <<>>]
    /\ recvd = [p \in Procs |-> <<>>]
    /\ closed = [p \in Procs |-> FALSE]
    /\ cons = [p \in Procs |-> "stopped"]
    /\ ops = [p \in Procs |-> <<>>]

(***************************************************************************)
(* The producer goroutine of CreateHandler (lines 59-136), one action per  *)
(* stretch of code between two channel sends or two store operations.  A   *)
(* send on the unbuffered channel completes when the consumer receives     *)
(* (Deliver); until then the goroutine is blocked with the event in outq.  *)
(***************************************************************************)
Set(f, p, v) == [f EXCEPT ![p] = v]

Stages == <<"template", "system", "license", "params", "messages", "config">>

\* createModel lines 250, 257, 264: the overlays it calls for request r
Applies(r, stage) ==
    CASE stage = "template" -> r.Template # ""
      [] stage = "system" -> r.System # ""
      [] stage = "license" -> r.License.kind # "nil"
      [] OTHER -> TRUE

\* the first stage after position i of Stages that createModel runs for r
NextStage(r, i) ==
    Stages[CHOOSE j \in (i + 1)..Len(Stages) :
              /\ Applies(r, Stages[j])
              /\ \A k \in (i + 1)..(j - 1) : ~Applies(r, Stages[k])]

\* lines 101-103: where the goroutine goes once the base layers are known
AfterBasePc(r) == IF r.Adapters.nil THEN "create" ELSE "convert"
AfterBaseConv(r) == IF r.Adapters.nil THEN NoConv ELSE [NoConv EXCEPT !.phase = "adapters"]

\* lines 87-94 and 105-112: the classification of a conversion error
ConvStatus(phase, e) ==
    IF phase = "files"
    THEN IF e \in {errNoFilesProvided, errOnlyGGUFSupported, errUnknownType}
         THEN StatusBadRequest ELSE NoStatus
    ELSE IF e \in {errNoFilesProvided, errOnlyOneAdapterSupported,
                   errOnlyGGUFSupported, errUnknownType}
         THEN StatusBadRequest ELSE StatusBadRequest

\* lines 121-126: the classification of a createModel error
CreateStatus(e) == IF e = errBadTemplate THEN StatusBadRequest ELSE NoStatus

\* CreateHandler lines 59-64 and 138-143: make the channel, start the
\* goroutine and the consumer.
Start(p, R, max) ==
    /\ pc[p] = "idle"
    /\ nreq < max
    /\ \E r \in R : req' = Set(req, p, r)
    /\ nreq' = nreq + 1
    /\ pc' = Set(pc, p, "resolve")
    /\ oldManifest' = Set(oldManifest, p, <<>>)
    /\ baseLayers' = Set(baseLayers, p, <<>>)
    /\ layers' = Set(layers, p, <<>>)
    /\ config' = Set(config, p, EmptyConfig)
    /\ configLayer' = Set(configLayer, p, <<>>)
    /\ conv' = Set(conv, p, NoConv)
    /\ outq' = Set(outq, p, <<>>)
    /\ recvd' = Set(recvd, p, <<>>)
    /\ closed' = Set(closed, p, FALSE)
    /\ cons' = Set(cons, p, "recv")
    /\ ops' = Set(ops, p, <<>>)
    /\ UNCHANGED <<blobs, manifests, noPrune>>

\* lines 96-99: the request names no source model and carries no files
\* (the variant that goes on to createModel without returning comes first)
NoSource_FallsThrough(p) ==
    /\ outq' = Set(outq, p, <<ErrorEvent(errNeitherFromOrFiles, StatusBadRequest)>>)
    /\ pc' = Set(pc, p, "create")
    /\ UNCHANGED <<baseLayers, conv, ops>>

NoSource(p) ==
    /\ outq' = Set(outq, p, <<ErrorEvent(errNeitherFromOrFiles, StatusBadRequest)>>)
    /\ pc' = Set(pc, p, "return")
    /\ UNCHANGED <<baseLayers, conv, ops>>

\* lines 66-99: read the old manifest and resolve the source
Resolve(p) ==
    /\ pc[p] = "resolve"
    /\ outq[p] = <<>>
    /\ LET r == req[p]
           src == parseFromModel(manifests, blobs, r.From)
       IN  /\ oldManifest' = Set(oldManifest, p,
                 IF r.Name \in DOMAIN manifests THEN <<manifests[r.Name]>> ELSE <<>>)
           /\ IF r.From # ""
              THEN IF ~ValidName(r.From)
                   THEN /\ outq' = Set(outq, p,
                              <<ErrorEvent(errInvalidModelName, StatusBadRequest)>>)
                        /\ pc' = Set(pc, p, "return")
                        /\ UNCHANGED <<baseLayers, conv, ops>>
                   ELSE \* line 82 sends the error and does not return
                        /\ baseLayers' = Set(baseLayers, p, src.layers)
                        /\ ops' = Set(ops, p, ops[p] \o src.read)
                        /\ outq' = Set(outq, p,
                              IF src.err # "" THEN <<ErrorEvent(src.err, NoStatus)>>
                              ELSE <<>>)
                        /\ pc' = Set(pc, p, AfterBasePc(r))
                        /\ conv' = Set(conv, p, AfterBaseConv(r))
              ELSE IF ~r.Files.nil
                   THEN /\ pc' = Set(pc, p, "convert")
                        /\ conv' = Set(conv, p, [NoConv EXCEPT !.phase = "files"])
                        /\ UNCHANGED <<baseLayers, outq, ops>>
                   ELSE NoSource(p)
    /\ UNCHANGED <<blobs, manifests, noPrune, nreq, req, layers, config,
                   configLayer, recvd, closed, cons>>

\* the error return of convertModelFromFiles as CreateHandler reports it
ConvFail(p, e) ==
    /\ outq' = Set(outq, p, <<ErrorEvent(e, ConvStatus(conv[p].phase, e))>>)
    /\ pc' = Set(pc, p, "return")

ConvFiles(p) == IF conv[p].phase = "files" THEN req[p].Files.m ELSE req[p].Adapters.m

\* convertModelFromFiles lines 147-158, up to the first ggufLayers call; the
\* two ranges over the map each visit it in an order of their own
Convert(p) ==
    /\ pc[p] = "convert"
    /\ outq[p] = <<>>
    /\ LET files == ConvFiles(p)
           n == Cardinality(DOMAIN files)
       IN  \E o1, o2 \in Orders(DOMAIN files) :
             LET t == detectModelTypeFromFiles(files, o1, blobs)
                 e == IF t # "gguf" THEN errUnknownType
                      ELSE IF n = 0 THEN errNoFilesProvided
                      ELSE IF n > 1 /\ conv[p].phase = "adapters"
                           THEN errOnlyOneAdapterSupported
                      ELSE ""
             IN  IF e # ""
                 THEN /\ ConvFail(p, e)
                      /\ conv' = Set(conv, p, [conv[p] EXCEPT !.detected = t])
                 ELSE /\ conv' = Set(conv, p,
                            [conv[p] EXCEPT !.detected = t,
                                            !.todo = [i \in 1..n |-> files[o2[i]]]])
                      /\ outq' = Set(outq, p, <<Progress("parsing GGUF")>>)
                      /\ pc' = Set(pc, p, "gguf")
    /\ UNCHANGED <<blobs, manifests, noPrune, nreq, req, oldManifest, baseLayers,
                   layers, config, configLayer, recvd, closed, cons, ops>>

\* ggufLayers lines 323-348: open the blob, check its content type, stat it
GgufOpen(p) ==
    /\ pc[p] = "gguf"
    /\ outq[p] = <<>>
    /\ LET d == Head(conv[p].todo)
       IN  IF d \notin DOMAIN blobs
           THEN ConvFail(p, errBlobNotExist) /\ UNCHANGED ops
           ELSE /\ ops' = Set(ops, p, Append(ops[p], Op("read", d)))
                /\ IF DetectContentType(blobs[d]) # "gguf"
                   THEN ConvFail(p, errOnlyGGUFSupported)
                   ELSE pc' = Set(pc, p, "ggufLoop") /\ UNCHANGED outq
    /\ UNCHANGED <<blobs, manifests, noPrune, nreq, req, oldManifest, baseLayers,
                   layers, config, configLayer, conv, recvd, closed, cons>>

\* ggufLayers lines 350-374, one evaluation of the loop condition and, when it
\* holds, one run of the body.  The body neither advances offset nor appends
\* to the result; when the loop is left, detectChatTemplate gets no layers.
GgufLoop(p) ==
    /\ pc[p] = "ggufLoop"
    /\ outq[p] = <<>>
    /\ LET d == Head(conv[p].todo)
           rest == Tail(conv[p].todo)
           r == req[p]
       IN  IF d \notin DOMAIN blobs
           THEN \* NewLayerFromLayer finds the blob gone
                /\ ConvFail(p, errBlobNotExist)
                /\ UNCHANGED <<conv, baseLayers>>
           ELSE IF conv[p].offset < Len(blobs[d])
           THEN UNCHANGED <<pc, outq, conv, baseLayers>>
           ELSE IF rest # <<>>
           THEN /\ conv' = Set(conv, p, [conv[p] EXCEPT !.todo = rest])
                /\ outq' = Set(outq, p, <<Progress("parsing GGUF")>>)
                /\ pc' = Set(pc, p, "gguf")
                /\ UNCHANGED baseLayers
           ELSE IF conv[p].phase = "files"
           THEN /\ baseLayers' = Set(baseLayers, p, conv[p].acc)
                /\ pc' = Set(pc, p, AfterBasePc(r))
                /\ conv' = Set(conv, p, AfterBaseConv(r))
                /\ UNCHANGED outq
           ELSE /\ baseLayers' = Set(baseLayers, p, baseLayers[p] \o conv[p].acc)
                /\ pc' = Set(pc, p, "create")
                /\ conv' = Set(conv, p, NoConv)
                /\ UNCHANGED outq
    /\ UNCHANGED <<blobs, manifests, noPrune, nreq, req, oldManifest, layers,
                   config, configLayer, recvd, closed, cons, ops>>

\* createModel returns error e: lines 120-127 report it and return
CreateFail(p, e) ==
    /\ outq' = Set(outq, p, <<ErrorEvent(e, CreateStatus(e))>>)
    /\ pc' = Set(pc, p, "return")

\* createModel lines 219-248
CreateModel(p) ==
    /\ pc[p] = "create"
    /\ outq[p] = <<>>
    /\ LET r == req[p]
           b == baseLoop(baseLayers[p], QuantType(r), <<>>, EmptyConfig)
       IN  /\ layers' = Set(layers, p, b.layers)
           /\ config' = Set(config, p, b.config)
           /\ IF b.err # "" THEN CreateFail(p, b.err)
              ELSE pc' = Set(pc, p, NextStage(r, 0)) /\ UNCHANGED outq
    /\ UNCHANGED <<blobs, manifests, noPrune, nreq, req, oldManifest, baseLayers,
                   configLayer, conv, recvd, closed, cons, ops>>

\* the working context of goroutine p
Working(p) == Ctx(blobs, layers[p], ops[p])

\* an overlay function returned context c: take over its stores, and go on
\* with the next overlay or report its error (stage is its place in Stages)
Overlaid(p, c, stage) ==
    /\ blobs' = c.blobs
    /\ layers' = Set(layers, p, c.layers)
    /\ ops' = Set(ops, p, c.ops)
    /\ IF c.err # "" THEN CreateFail(p, c.err)
       ELSE pc' = Set(pc, p, NextStage(req[p], stage)) /\ UNCHANGED outq
    /\ UNCHANGED <<manifests, noPrune, nreq, req, oldManifest, baseLayers, config,
                   configLayer, conv, recvd, closed, cons>>

\* createModel lines 250-255
ApplyTemplate(p) ==
    /\ pc[p] = "template"
    /\ outq[p] = <<>>
    /\ Overlaid(p, setTemplate(Working(p), manifests, req[p].Template), 1)

\* createModel lines 257-262
ApplySystem(p) ==
    /\ pc[p] = "system"
    /\ outq[p] = <<>>
    /\ Overlaid(p, setSystem(Working(p), manifests, req[p].System), 2)

\* createModel lines 264-288
ApplyLicense(p) ==
    /\ pc[p] = "license"
    /\ outq[p] = <<>>
    /\ LET l == req[p].License
       IN  Overlaid(p,
              CASE l.kind = "string" ->
                     IF l.strs[1] # "" THEN setLicense(Working(p), manifests, l.strs[1])
                     ELSE Working(p)
                [] l.kind = "list" -> setLicenses(Working(p), manifests, l.strs)
                [] OTHER -> Failed(Working(p), errBadLicense),
              3)

\* createModel lines 290-293
ApplyParameters(p) ==
    /\ pc[p] = "params"
    /\ outq[p] = <<>>
    /\ Overlaid(p, setParameters(Working(p), manifests, req[p].Parameters), 4)

\* createModel lines 295-298
ApplyMessages(p) ==
    /\ pc[p] = "messages"
    /\ outq[p] = <<>>
    /\ Overlaid(p, setMessages(Working(p), manifests, req[p].Messages), 5)

\* the status events of lines 305-309
RECURSIVE LayerStatuses(_)
LayerStatuses(ls) ==
    IF ls = <<>> THEN <<>>
    ELSE (IF Head(ls).status # "" THEN <<Progress(Head(ls).status)>> ELSE <<>>)
         \o LayerStatuses(Tail(ls))

\* createModel lines 300-311: the config layer, then the status events up to
\* "writing manifest"
ConfigLayer(p) ==
    /\ pc[p] = "config"
    /\ outq[p] = <<>>
    /\ LET c == createConfigLayer(Working(p), config[p])
       IN  /\ blobs' = c.blobs
           /\ ops' = Set(ops, p, c.ops)
           /\ configLayer' = Set(configLayer, p, <<Last(c.layers)>>)
           /\ config' = Set(config, p, [config[p] EXCEPT !.DiffIDs = Digests(layers[p])])
           /\ outq' = Set(outq, p,
                 LayerStatuses(layers[p]) \o <<Progress("writing manifest")>>)
    /\ pc' = Set(pc, p, "write")
    /\ UNCHANGED <<manifests, noPrune, nreq, req, oldManifest, baseLayers, layers,
                   conv, recvd, closed, cons>>

\* the manifest write with the success status sent before the old manifest
\* is pruned
WriteManifest_SuccessFirst(p) ==
    /\ pc[p] = "write"
    /\ outq[p] = <<>>
    /\ manifests' = (req[p].Name :>
                        [Config |-> Stored(configLayer[p][1]),
                         Layers |-> [i \in 1..Len(layers[p]) |-> Stored(layers[p][i])]])
                    @@ manifests
    /\ ops' = Set(ops, p, Append(ops[p], Op("manifest", <<req[p].Name>>)))
    /\ pc' = Set(pc, p, IF ~noPrune /\ oldManifest[p] # <<>> THEN "prune" ELSE "return")
    /\ outq' = Set(outq, p, <<SuccessEvent>>)
    /\ UNCHANGED <<blobs, noPrune, nreq, req, oldManifest, baseLayers, layers,
                   config, configLayer, conv, recvd, closed, cons>>

\* createModel lines 312-316 and CreateHandler line 129: install the manifest
\* under the requested name, then prune or report success
WriteManifest(p) ==
    /\ pc[p] = "write"
    /\ outq[p] = <<>>
    /\ manifests' = (req[p].Name :>
                        [Config |-> Stored(configLayer[p][1]),
                         Layers |-> [i \in 1..Len(layers[p]) |-> Stored(layers[p][i])]])
                    @@ manifests
    /\ ops' = Set(ops, p, Append(ops[p], Op("manifest", <<req[p].Name>>)))
    /\ IF ~noPrune /\ oldManifest[p] # <<>>
       THEN pc' = Set(pc, p, "prune") /\ UNCHANGED outq
       ELSE pc' = Set(pc, p, "return") /\ outq' = Set(outq, p, <<SuccessEvent>>)
    /\ UNCHANGED <<blobs, noPrune, nreq, req, oldManifest, baseLayers, layers,
                   config, configLayer, conv, recvd, closed, cons>>

\* CreateHandler lines 130-135: Manifest.RemoveLayers on the old manifest;
\* its error is sent and the success event follows.  A deletion can fail
\* in the storage (fails) when there is a blob to delete.
Prune(p) ==
    /\ pc[p] = "prune"
    /\ outq[p] = <<>>
    /\ LET old == ManifestLayers(oldManifest[p][1])
           c == RemoveAll(Ctx(blobs, <<>>, Append(ops[p], Op("prune", <<>>))),
                          manifests, old)
       IN  \E fails \in {FALSE, c.blobs # blobs} :
              IF fails
              THEN /\ outq' = Set(outq, p,
                         <<ErrorEvent(errRemoveBlob, NoStatus), SuccessEvent>>)
                   /\ ops' = Set(ops, p, Append(ops[p], Op("prune", <<>>)))
                   /\ UNCHANGED blobs
              ELSE /\ outq' = Set(outq, p, <<SuccessEvent>>)
                   /\ ops' = Set(ops, p, c.ops)
                   /\ blobs' = c.blobs
    /\ pc' = Set(pc, p, "return")
    /\ UNCHANGED <<manifests, noPrune, nreq, req, oldManifest, baseLayers, layers,
                   config, configLayer, conv, recvd, closed, cons>>

\* the goroutine returns: the deferred close(ch) of line 61
Return(p) ==
    /\ pc[p] = "return"
    /\ outq[p] = <<>>
    /\ closed' = Set(closed, p, TRUE)
    /\ cons' = Set(cons, p, "stopped")
    /\ pc' = Set(pc, p, "idle")
    /\ UNCHANGED <<blobs, manifests, noPrune, nreq, req, oldManifest, baseLayers,
                   layers, config, configLayer, conv, outq, recvd, ops>>

\* One send completes: the consumer receives the event the goroutine is
\* blocked on.  streamResponse forwards every event until the channel is
\* closed; waitForStream stops receiving at the first terminal event.
Deliver(p) ==
    /\ outq[p] # <<>>
    /\ cons[p] = "recv"
    /\ recvd' = Set(recvd, p, Append(recvd[p], Head(outq[p])))
    /\ outq' = Set(outq, p, Tail(outq[p]))
    /\ cons' = Set(cons, p,
          IF ~req[p].Stream /\ IsTerminal(Head(outq[p])) THEN "stopped" ELSE "recv")
    /\ UNCHANGED <<blobs, manifests, noPrune, nreq, pc, req, oldManifest,
                   baseLayers, layers, config, configLayer, conv, closed, ops>>

\* every step of goroutine p but its start
Run(p) ==
    \/ Resolve(p)
    \/ Convert(p)
    \/ GgufOpen(p)
    \/ GgufLoop(p)
    \/ CreateModel(p)
    \/ ApplyTemplate(p)
    \/ ApplySystem(p)
    \/ ApplyLicense(p)
    \/ ApplyParameters(p)
    \/ ApplyMessages(p)
    \/ ConfigLayer(p)
    \/ WriteManifest(p)
    \/ Prune(p)
    \/ Return(p)
    \/ Deliver(p)

(***************************************************************************)
(* Spec: creation requests run one after another.                          *)
(***************************************************************************)
Next == Start(1, Requests, MaxRequests) \/ Run(1)

Spec == Init /\ [][Next]_vars

(***************************************************************************)
(* ChainSpec: successive updates of one model, each based on an installed  *)
(* model (the pulled base or the model's previous version).                *)
(***************************************************************************)
\* r alone, or r with one of the overlays the merge, no-op and accumulation
\* laws are about: parameters, licenses or messages
ChainOverlay(r) ==
    {r}
    \cup {[r EXCEPT !.License = l] :
            l \in {LicenseString("l1"), LicenseString("l2"), LicenseList(<<"l1", "l2">>)}}
    \cup {[r EXCEPT !.Parameters = q] :
            q \in {Param("a", "1"), Param("b", "2"), Param("a", "3")}}
    \cup {[r EXCEPT !.Messages = M1]}

\* creations of "m1" from the pulled base (with a template and a system
\* prompt, or with the first overlay of a chain), updates of "m1" from itself
\* with every overlay of ChainOverlay, and one creation from an uploaded file
ChainRequests ==
    ChainOverlay([Blank("m1") EXCEPT !.From = "m1"])
    \cup {[Blank("m1") EXCEPT !.From = "base", !.Template = "t1", !.System = "s1"]}
    \cup {r \in ChainOverlay([Blank("m1") EXCEPT !.From = "base"]) :
            \/ r.Parameters = Param("a", "1")
            \/ r.License = LicenseString("l1")
            \/ r.Messages = M1}
    \cup {[Blank("m1") EXCEPT !.Files = FilesOf(File("a", ".gguf") :> Digest(bF32))]}

ChainNext == Start(1, ChainRequests, MaxChain) \/ Run(1)

ChainSpec == Init /\ [][ChainNext]_vars

(***************************************************************************)
(* LiveSpec: requests one after another, the goroutine and its consumer    *)
(* scheduled fairly (a runnable goroutine eventually runs).                *)
(***************************************************************************)
\* no source model, one valid GGUF file, no adapters, no overlays
MinimalRequest == [Blank("m1") EXCEPT !.Files = FilesOf(File("a", ".gguf") :> Digest(bF32))]

\* each with a consumer that streams and with one that waits for the result
LiveRequests ==
    WithStream(
        {MinimalRequest}
        \cup {[r EXCEPT !.From = f] :
                r \in {[Blank("m1") EXCEPT !.Template = "t1"],
                       [Blank("m1") EXCEPT !.System = "s1"],
                       [Blank("m1") EXCEPT !.License = LicenseString("l1")]},
                f \in {"base", "m1"}})

LiveNext == Start(1, LiveRequests, MaxRequests) \/ Run(1)

LiveSpec == Init /\ [][LiveNext]_vars /\ WF_vars(Run(1))

(***************************************************************************)
(* ConcSpec: two creation requests for different names run concurrently,   *)
(* goroutine 1 updating the installed model "q4", goroutine 2 creating     *)
(* "m2"; every store operation of one may fall between two of the other.   *)
(***************************************************************************)
ConcOverlay(r) ==
    {r, [r EXCEPT !.Template = "t1"], [r EXCEPT !.Template = "t0"],
     [r EXCEPT !.System = "s1"], [r EXCEPT !.License = LicenseString("l1")]}

ConcRequests(p) ==
    IF p = 1
    THEN ConcOverlay([Blank("q4") EXCEPT !.From = "q4"])
    ELSE ConcOverlay([Blank("m2") EXCEPT !.From = "base"])
         \cup ConcOverlay([Blank("m2") EXCEPT !.From = "q4"])
         \cup {[MinimalRequest EXCEPT !.Name = "m2"]}

ConcStart(p) == ~closed[p] /\ Start(p, ConcRequests(p), MaxRequests)

ConcNext == \E p \in Procs : ConcStart(p) \/ Run(p)

ConcSpec == Init /\ [][ConcNext]_vars

(***************************************************************************)
(* FilesSpec: requests that go through convertModelFromFiles, for model    *)
(* files and for adapter files, with maps of zero to three entries, and a  *)
(* request with no source at all; one request with overlays exercises the  *)
(* rest of the pipeline.                                                   *)
(***************************************************************************)
ConvFileMaps ==
    FileMaps
    \cup { (File("a", ".gguf") :> Digest(bF32)) @@ (File("b", ".gguf") :> Digest(bJunk)),
           (File("a", ".gguf") :> Digest(bF32)) @@ (File("x", ".safetensors") :> Digest(bJunk))
               @@ (File("blob", "") :> Digest(bF16)) }

ConvAdapterMaps ==
    AdapterMaps
    \cup { <<>>,
           File("lora", ".gguf") :> Digest(<<"absent">>),
           File("lora", ".gguf") :> Digest(bJunk),
           File("lora", ".bin") :> Digest(bJunk) }

ConvRequests ==
    {[Blank("m1") EXCEPT !.Files = FilesOf(m)] : m \in ConvFileMaps}
    \cup {[Blank("m1") EXCEPT !.From = "base", !.Adapters = FilesOf(m)] : m \in ConvAdapterMaps}
    \cup {[Blank("m1") EXCEPT !.From = "base", !.Template = "t1", !.System = "s1",
                              !.License = LicenseString("l1")]}
    \cup WithStream({Blank("m1")})

FilesNext == Start(1, ConvRequests, MaxRequests) \/ Run(1)

FilesSpec == Init /\ [][FilesNext]_vars

(***************************************************************************)
(* Properties.                                                             *)
(***************************************************************************)
TypeOK ==
    /\ \A p \in Procs : pc[p] \in {"idle", "resolve", "convert", "gguf", "ggufLoop",
            "create", "template", "system", "license", "params", "messages",
            "config", "write", "prune", "return"}
    /\ nreq \in 0..MaxChain

Count(s, P(_)) == Cardinality({i \in 1..Len(s) : P(s[i])})

HasError(s) == \E i \in 1..Len(s) : IsError(s[i])

OfType(ls, mediatype) == SelectSeq(ls, LAMBDA l : l.MediaType = mediatype)

\* every digest an installed manifest lists has its blob
NoDangling == 
    \A n \in DOMAIN manifests :
        \A d \in SeqToSet(Digests(ManifestLayers(manifests[n]))) : d \in DOMAIN blobs

\* C1: every request whose channel has been closed had exactly one terminal
\* event (the success status or an error payload) sent on the channel.
C1_ExactlyOneTerminal ==
    \A p \in Procs : closed[p] => Count(recvd[p], IsTerminal) = 1

\* C2: once a request has emitted an error event, no later step of it writes
\* a manifest: the manifest store stays as it is.
C2_NoManifestAfterError ==
    [][\A p \in Procs : (pc[p] # "idle" /\ HasError(recvd[p]))
                            => manifests' = manifests]_vars

\* C3: in every state reached by requests run one after another, every layer
\* digest listed by an installed manifest (config included) has its blob.
C3_ManifestBlobsPresent == NoDangling

\* C3 witness: an update that superseded a layer has pruned the old manifest,
\* deleting a blob, and its model shares layers with another installed model.
C3_Witness ==
    /\ closed[1] /\ pc[1] = "idle"
    /\ \E i \in 1..Len(ops[1]) : ops[1][i].op = "delete"
    /\ "m1" \in DOMAIN manifests
    /\ Len(manifests["m1"].Layers) >= 2

\* C4: when two concurrent requests for different names have both finished,
\* every layer digest of every installed manifest has its blob.
C4_NoCorruption ==
    (\A p \in Procs : closed[p] /\ pc[p] = "idle") => NoDangling

\* C5: a request with one valid GGUF file, no source name, no adapters and no
\* overlays leads to a finished creation whose manifest has a base model layer
\* and a config layer, with a single terminal event, the success status.
C5_Created(p) ==
    /\ closed[p]
    /\ req[p].Name \in DOMAIN manifests
    /\ Len(manifests[req[p].Name].Layers) = 1
    /\ manifests[req[p].Name].Layers[1].MediaType = MTModel
    /\ Count(recvd[p], IsTerminal) = 1
    /\ IsSuccess(Last(recvd[p]))

C5_MinimalCreates ==
    (pc[1] = "resolve" /\ req[1] = MinimalRequest) ~> C5_Created(1)

\* C6: the config document of every manifest createModel wrote lists as
\* diff-IDs the digests of the manifest's content layers, in order; so does
\* the config layer about to be passed to WriteManifest.
C6_DiffIDs ==
    /\ \A n \in DOMAIN manifests \cap TargetNames :
          /\ manifests[n].Config.Digest \in DOMAIN blobs
          /\ DecodeDiffIDs(blobs[manifests[n].Config.Digest])
                = Digests(manifests[n].Layers)
    /\ \A p \in Procs : pc[p] = "write" =>
          /\ configLayer[p][1].Digest \in DOMAIN blobs
          /\ DecodeDiffIDs(blobs[configLayer[p][1].Digest]) = Digests(layers[p])

\* C6 witness: a manifest with overlays applied on the base layer is installed.
C6_Witness ==
    /\ "m1" \in DOMAIN manifests
    /\ Len(manifests["m1"].Layers) >= 3
    /\ closed[1]

\* the []Layer of the base layers of goroutine p
BaseOf(p) == [i \in 1..Len(baseLayers[p]) |-> baseLayers[p][i].Layer]

\* the parameters stored in the first parameters layer of ls, if any
StoredParams(ls) ==
    IF OfType(ls, MTParams) = <<>> THEN NoParams
    ELSE DecodeParams(blobs[OfType(ls, MTParams)[1].Digest])

\* C7: after setParameters, the written parameters are the supplied map plus
\* every existing key that was not resupplied, new values winning, held by
\* exactly one parameters layer; {a:1} updated with {b:2} gives {a:1, b:2},
\* and that updated with {a:3} gives {a:3, b:2}.
C7_ParamsMerge ==
    \A p \in Procs : pc[p] = "messages" =>
        LET P == req[p].Parameters
            E == StoredParams(BaseOf(p))
            new == OfType(layers[p], MTParams)
        IN  IF DOMAIN P \cup DOMAIN E = {} THEN new = <<>>
            ELSE /\ Len(new) = 1
                 /\ new[1].Digest \in DOMAIN blobs
                 /\ DOMAIN StoredParams(layers[p]) = DOMAIN P \cup DOMAIN E
                 /\ \A k \in DOMAIN P : StoredParams(layers[p])[k] = P[k]
                 /\ \A k \in DOMAIN E \ DOMAIN P : StoredParams(layers[p])[k] = E[k]
                 /\ (E = Param("a", "1") /\ P = Param("b", "2"))
                       => StoredParams(layers[p]) = Param("a", "1") @@ Param("b", "2")
                 /\ (E = Param("a", "1") @@ Param("b", "2") /\ P = Param("a", "3"))
                       => StoredParams(layers[p]) = Param("a", "3") @@ Param("b", "2")

\* C7 witness: the third request of a chain updates {a:1, b:2} with {a:3}.
C7_Witness ==
    /\ pc[1] = "messages" /\ nreq = 3
    /\ req[1].Parameters = Param("a", "3")
    /\ StoredParams(BaseOf(1)) = Param("a", "1") @@ Param("b", "2")
    /\ StoredParams(layers[1]) = Param("a", "3") @@ Param("b", "2")

\* C8: an update that supplies no messages keeps the messages layer of the
\* model it is based on: same layer, same digest, after setMessages and in the
\* manifest it installs, and the blob is still stored when it has finished.
C8_MessagesKept ==
    \A p \in Procs : Len(req[p].Messages) = 0 =>
        /\ pc[p] = "config" =>
              /\ Digests(OfType(layers[p], MTMessages))
                    = Digests(OfType(BaseOf(p), MTMessages))
              /\ \A d \in SeqToSet(Digests(OfType(BaseOf(p), MTMessages))) :
                    d \in DOMAIN blobs
        /\ (closed[p] /\ recvd[p] # <<>> /\ IsSuccess(Last(recvd[p]))) =>
              /\ Digests(OfType(manifests[req[p].Name].Layers, MTMessages))
                    = Digests(OfType(BaseOf(p), MTMessages))
              /\ \A d \in SeqToSet(Digests(OfType(BaseOf(p), MTMessages))) :
                    d \in DOMAIN blobs

\* C8 witness: a model created with messages M1 has been updated in place by
\* a request without messages, and still has the M1 layer.
C8_Witness ==
    /\ closed[1] /\ IsSuccess(Last(recvd[1]))
    /\ req[1].From = "m1" /\ Len(req[1].Messages) = 0
    /\ Digests(OfType(BaseOf(1), MTMessages)) = <<Digest(EncodeMessages(M1))>>
    /\ Digests(OfType(manifests["m1"].Layers, MTMessages)) = <<Digest(EncodeMessages(M1))>>

\* the license strings createModel passes to setLicense for request r
LicenseStrings(r) ==
    IF r.License.kind = "list" THEN r.License.strs
    ELSE IF r.License.kind = "string" /\ r.License.strs[1] # "" THEN r.License.strs
    ELSE <<>>

\* C9: after the license overlay, the license layers are those of the model
\* the request is based on, all kept and in order, followed by one new layer
\* per supplied license string.
C9_LicensesAppend ==
    \A p \in Procs : pc[p] = "params" =>
        Digests(OfType(layers[p], MTLicense))
            = Digests(OfType(BaseOf(p), MTLicense))
              \o [i \in 1..Len(LicenseStrings(req[p])) |->
                    Digest(Text(LicenseStrings(req[p])[i]))]

\* C9 witness: two successive requests, each with one license string, have
\* left two license layers in the final manifest.
C9_Witness ==
    /\ closed[1] /\ IsSuccess(Last(recvd[1]))
    /\ req[1].From = "m1" /\ req[1].License = LicenseString("l2")
    /\ Digests(OfType(manifests["m1"].Layers, MTLicense))
          = <<Digest(Text("l1")), Digest(Text("l2"))>>

\* createModel of goroutine p returned the quantization error
QuantFailed(p) ==
    \E e \in SeqToSet(outq[p]) \cup SeqToSet(recvd[p]) :
        IsError(e) /\ e.text = errQuantization

OnlyReads(log) == \A i \in 1..Len(log) : log[i].op = "read"

\* C10 as stated: when createModel fails on the quantization guard, nothing
\* was appended to the working layer set, and no blob and no manifest was
\* written.
C10_NothingAppended ==
    \A p \in Procs : QuantFailed(p) => layers[p] = <<>> /\ OnlyReads(ops[p])

\* C10 amended: a request for quantization never gets past the loop over the
\* base layers when one of its GGUF model layers is not F16 or F32; when the
\* guard fails, the working set holds only the base layers that precede the
\* offending one, and the request has written no blob, removed none and
\* written no manifest.
C10_FailsBeforeOverlays ==
    \A p \in Procs :
        /\ QuantFailed(p) =>
              /\ OnlyReads(ops[p])
              /\ Len(layers[p]) < Len(baseLayers[p])
              /\ layers[p] = SubSeq(BaseOf(p), 1, Len(layers[p]))
              /\ LET l == baseLayers[p][Len(layers[p]) + 1]
                 IN  l.Layer.MediaType = MTModel /\ l.GGML.FileType \notin {"F16", "F32"}
        /\ (QuantType(req[p]) # "" /\ pc[p] \in SeqToSet(Stages) \cup {"write", "prune"}) =>
              \A i \in 1..Len(baseLayers[p]) :
                 (baseLayers[p][i].GGML.present /\ baseLayers[p][i].Layer.MediaType = MTModel)
                    => baseLayers[p][i].GGML.FileType \in {"F16", "F32"}

\* C10 witness: the guard has failed on a model layer that is not the first
\* base layer.
C10_Witness ==
    /\ QuantFailed(1) /\ closed[1]
    /\ Len(layers[1]) = 1

\* C10 witness of the other case: the guard has failed on the first base layer.
C10_WitnessFirst ==
    /\ QuantFailed(1) /\ closed[1]
    /\ layers[1] = <<>> /\ Len(baseLayers[1]) >= 2

\* the events goroutine p has emitted so far, in emission order: those the
\* consumer has received, then those of the sends it is blocked on
Emitted(p) == recvd[p] \o outq[p]

\* the request of goroutine p names no source model and carries no files
NoSourceRequest(p) == req[p].Name # "" /\ req[p].From = "" /\ req[p].Files.nil

Converted(p) == conv[p].phase # "" /\ conv[p].detected # "none"

\* C12: convertModelFromFiles on an empty map, of model files or of adapter
\* files, fails with errNoFilesProvided.
C12_EmptyMapNoFilesProvided ==
    \A p \in Procs : (Converted(p) /\ DOMAIN ConvFiles(p) = {}) =>
        \E e \in SeqToSet(Emitted(p)) : IsError(e) /\ e.text = errNoFilesProvided

\* createModel of goroutine p is past the system overlay of lines 257-262
PastSystem(p) == pc[p] \in {"license", "params", "messages", "config", "write", "prune"}

\* C13: in a request based on a model that has a system-prompt layer, once
\* the system overlay is done the working set holds exactly one system layer,
\* for the supplied string, when the string is not empty, and no system layer
\* when the supplied string is empty.
C13_SystemReplacedOrCleared ==
    \A p \in Procs : (PastSystem(p) /\ OfType(BaseOf(p), MTSystem) # <<>>) =>
        Digests(OfType(layers[p], MTSystem))
            = IF req[p].System # "" THEN <<Digest(Text(req[p].System))>> ELSE <<>>

\* the error kinds CreateHandler lists as caller errors of the adapter
\* conversion (line 105)
KnownAdapterErrors ==
    {errNoFilesProvided, errOnlyOneAdapterSupported, errOnlyGGUFSupported, errUnknownType}

\* C14: an error event of a failed adapter conversion carries the bad-request
\* status exactly when its error is one of the known kinds; any other failure
\* is reported without the status.
C14_AdapterErrorClass ==
    \A p \in Procs : (conv[p].phase = "adapters" /\ pc[p] = "return") =>
        \A e \in SeqToSet(Emitted(p)) : IsError(e) =>
            (e.code = StatusBadRequest <=> e.text \in KnownAdapterErrors)

\* goroutine p has written a manifest
WroteManifest(p) == \E i \in 1..Len(ops[p]) : ops[p][i].op = "manifest"

\* C15: when no base layer of a request carries GGUF metadata (the base layer
\* set may be empty), createModel does not get past the aggregation of the
\* config with the "no base model was found" error: it composes no overlay
\* and writes no manifest.
C15_NoBaseModelFails ==
    \A p \in Procs : (req[p].Name # "" /\ kvFromLayers(baseLayers[p]) = errNoBaseModel) =>
        /\ pc[p] \notin SeqToSet(Stages) \cup {"write", "prune"}
        /\ ~WroteManifest(p)

\* the request of goroutine p has failed with the bad-template error
BadTemplateFailed(p) ==
    \E e \in SeqToSet(Emitted(p)) : IsError(e) /\ e.text = errBadTemplate

\* goroutine p has called Layer.Remove
CalledRemove(p) == \E i \in 1..Len(ops[p]) : ops[p][i].op = "remove"

\* C16: a request that fails on the validation of its template reports the
\* bad-template error with the bad-request status, and has not removed the
\* existing template layer: it made no call to Layer.Remove, and the blobs of
\* the template layers of its base are still stored.
C16_ValidateBeforeReplace ==
    \A p \in Procs : BadTemplateFailed(p) =>
        /\ \A e \in SeqToSet(Emitted(p)) : IsError(e) => e.code = StatusBadRequest
        /\ ~CalledRemove(p)
        /\ \A d \in SeqToSet(Digests(OfType(BaseOf(p), MTTemplate))) : d \in DOMAIN blobs

\* C17: a call of ggufLayers returns: a goroutine that has entered it (the
\* open of the blob, then the walk over its length) eventually leaves it,
\* with layers or with an error, and its request then comes to an end.
C17_GgufLayersReturns ==
    /\ (pc[1] = "gguf") ~> (pc[1] \notin {"gguf", "ggufLoop"})
    /\ (pc[1] = "convert") ~> closed[1]

\* C19: with a consumer that waits for the final result and stops receiving at
\* the first terminal event, the goroutine of a request based on a source
\* model does not stay blocked on a send: it finishes and closes the channel.
C19_WaitingConsumerNoBlock ==
    (pc[1] = "resolve" /\ ~req[1].Stream /\ req[1].From # "") ~> closed[1]

\* goroutine p has called RemoveLayers on the old manifest
Pruned(p) == \E i \in 1..Len(ops[p]) : ops[p][i].op = "prune"

\* a success event emitted by goroutine p comes last, after the manifest write,
\* the pruning when there is one to do, and the "writing manifest" status
SuccessInOrder(p) ==
    \A i \in 1..Len(Emitted(p)) : IsSuccess(Emitted(p)[i]) =>
        /\ i = Len(Emitted(p))
        /\ pc[p] \in {"return", "idle"}
        /\ WroteManifest(p) /\ req[p].Name \in DOMAIN manifests
        /\ (~noPrune /\ oldManifest[p] # <<>>) => Pruned(p)
        /\ \E j \in 1..(i - 1) : Emitted(p)[j] = Progress("writing manifest")

\* a step of a running request keeps the events emitted so far, in order, and
\* the consumer receives nothing but the event of the oldest pending send
EmissionOrder(p) ==
    pc[p] # "idle" =>
        /\ Len(recvd'[p] \o outq'[p]) >= Len(Emitted(p))
        /\ SubSeq(recvd'[p] \o outq'[p], 1, Len(Emitted(p))) = Emitted(p)
        /\ \/ recvd'[p] = recvd[p]
           \/ outq[p] # <<>> /\ recvd'[p] = Append(recvd[p], Head(outq[p]))

\* C18: a success event is emitted only after the manifest of the requested
\* name was written and the pruning, when enabled and an old manifest existed,
\* was attempted; the "writing manifest" status precedes it; it is the last
\* event emitted and the channel is closed with no event pending; and the
\* consumer receives the events in emission order, none dropped or merged.
C18_SuccessLastInOrder ==
    /\ [](\A p \in Procs : SuccessInOrder(p) /\ (closed[p] => outq[p] = <<>>))
    /\ [][\A p \in Procs : EmissionOrder(p)]_vars

\* C18 witness: an update has finished with success after it pruned the old
\* manifest, and its consumer holds the events up to the success status.
C18_Witness ==
    /\ closed[1] /\ recvd[1] # <<>> /\ IsSuccess(Last(recvd[1]))
    /\ Pruned(1) /\ WroteManifest(1)
    /\ Len(recvd[1]) >= 3

\* C20: the format convertModelFromFiles detected for a files map is the one
\* detectModelTypeFromFiles gives for every order in which the entries of the
\* map can be visited, so the error it returns for the map is the same too.
C20_OrderIndependent ==
    \A p \in Procs : Converted(p) =>
        \A o \in Orders(DOMAIN ConvFiles(p)) :
            detectModelTypeFromFiles(ConvFiles(p), o, blobs) = conv[p].detected

====
